---- MODULE Spec2Model ----
(***************************************************************************)
(* The instanced draw-batch aggregator (class InstancedBuffer) as a state  *)
(* machine: one aggregator, its ordered list of instance groups, the GFX   *)
(* device objects it creates, and the command recorder of uploadBuffers.   *)
(***************************************************************************)
EXTENDS Integers, Sequences, FiniteSets, TLC

\* ------------------------------------------------------------- constants

INITIAL_CAPACITY == 32
MAX_CAPACITY == 1024

\* NULL_HANDLE / a null texture / a null shader override
NULL_TEX == "null"
NULL_SHADER == 0

\* ---------------------------------------------------------------- bounds

\* merge calls and clear/destroy calls of a run of Spec
MaxMerges == 3
MaxFrames == 2
\* merge calls and clear/destroy calls of a run of SpecGrow
GrowMerges == 2050
GrowFrames == 1
MaxGets == 3
RegistryMerges == 1
ImplantMerges == 2
ImplantFrames == 1
MaxBurstTime == 1
MaxRepeatCount == 2
MaxRepeatInterval == 1
MaxDt == 2
MaxCopies == 2
MaxVel == 4
MaxLimit == 3
DampenScale == 4

\* ------------------------------------------------------------ the inputs

\* The source geometry of a submission: subModel.inputAssembler.
SourceIA(ib) ==
    [indexBuffer |-> ib,
     vertexBuffers |-> <<-1>>,
     attributes |-> <<[name |-> "a_position", format |-> "RGB32F", isNormalized |-> FALSE,
                       stream |-> 0, isInstanced |-> FALSE]>>]

\* A submission: its geometry, the texture bound to the lightmap slot of its
\* descriptor set, its shader handle per pass index and its descriptor set.
SubModel(ib, lm, sh, ds) ==
    [inputAssembler |-> SourceIA(ib), lightmap |-> lm, shaders |-> sh, hDescriptorSet |-> ds]

SubModelA == SubModel("IB1", NULL_TEX, <<1, 2>>, 1)
SubModelB == SubModel("IB1", NULL_TEX, <<3, 3>>, 2)
SubModelC == SubModel("IB2", NULL_TEX, <<1, 2>>, 1)
SubModelD == SubModel("IB1", "LM1", <<1, 2>>, 3)

\* An attribute block: the per-instance payload and its layout.
AttrBlock(buf) ==
    [buffer |-> buf,
     attributes |-> [k \in 1..Len(buf) |->
                        [name |-> "a_matWorld", format |-> "R8", isNormalized |-> FALSE]]]

\* The merge calls of Spec: <<subModel, attrs, passIdx>>, each with and
\* without a shader override.
Calls ==
    { <<SubModelA, AttrBlock(<<7>>), 0>>,
      <<SubModelA, AttrBlock(<<8>>), 1>>,
      <<SubModelA, AttrBlock(<<5, 6>>), 0>>,
      <<SubModelA, AttrBlock(<<>>), 0>>,
      <<SubModelB, AttrBlock(<<7>>), 0>>,
      <<SubModelC, AttrBlock(<<7>>), 0>>,
      <<SubModelD, AttrBlock(<<7>>), 1>>,
      <<SubModelD, AttrBlock(<<5, 6>>), 0>> }
ShaderImplants == {NULL_SHADER, 9}

\* The workload of SpecGrow: one submission merged over and over, the n-th
\* payload of a frame holding n in two bytes, and a stride-1 block of the
\* same submission, merged at most once, in the first frame.
GrowSubModel == SubModelA
GrowAttrs(n) == AttrBlock(<<n % 256, (n \div 256) % 256>>)
AlienAttrs == AttrBlock(<<7>>)
RegistryCalls == {<<SubModelA, AttrBlock(<<1>>), 0>>}
Passes == {"P1", "P2"}
ExtraKeys == {0, 1}
UNDEFINED == -1
GrowFrameEnds == {33, 1025}
GrowDestroyPoints == {33}
AlienPoints == {0, 1024}

\* ----------------------------------------------------------------- state

VARIABLES
    instances,          \* this.instances: the groups, in creation order
    hasPendingModels,   \* this.hasPendingModels
    dynamicOffsets,     \* this.dynamicOffsets
    device,             \* the GFX device: objects created, destroy() calls received
    cmdBuff,            \* the updates recorded by the latest uploadBuffers
    written,            \* per group: the submissions recorded since creation or clear
    lastWriter,         \* per group: the submission recorded last, and its pass index
    pristine,           \* per group: no clear has been called since it was created
    run,                \* the non-empty merges since the aggregator last had no groups
    merged,             \* the workload: merge calls made
    inFrame,            \* the workload: merge calls made since the last clear or destroy
    frames,             \* the workload: clear and destroy calls made
    aliens,             \* the workload: stride-1 merges of this frame (SpecGrow)
    alienAt,            \* the workload: where in this frame they were made (SpecGrow)
    route,              \* per merge of this frame: the group it was recorded in, 0 if none (SpecGrow)
    lastFrame,          \* the frame closed by the latest clear (SpecGrow)
    shadow,             \* a new aggregator given the merges made since the latest destroy (Spec)
    buffers,            \* InstancedBuffer._buffers: pass -> extraKey -> aggregator
    created,            \* the aggregators constructed so far, numbered from 1
    handed,             \* a <<pass, extraKey argument, aggregator returned>> per get call
    lastGet,            \* the latest get call and what it returned
    gets,               \* the workload: get calls made (SpecRegistry)
    twin,               \* an aggregator given the same calls with other overrides (SpecImplant)
    implants,           \* the overrides the latest merge passed to the two (SpecImplant)
    subBurst,           \* the fields of a SubBurst (SpecBurst)
    psys,               \* its particle system: isPlaying, and the emit calls received (SpecBurst)
    burstRun,           \* the copy and update calls made on the SubBurst (SpecBurst)
    dampenCall,         \* a call of dampenBeyondLimit: its arguments and what it returned (SpecDampen)
    lastOp              \* the latest call and what it did

vars == <<instances, hasPendingModels, dynamicOffsets, device, cmdBuff, written, lastWriter, pristine, run,
          merged, inFrame, frames, aliens, alienAt, route, lastFrame, shadow,
          buffers, created, handed, lastGet, gets, twin, implants,
          subBurst, psys, burstRun, dampenCall, lastOp>>

regVars == <<buffers, created, handed, lastGet, gets>>

growVars == <<alienAt, route, lastFrame>>

implVars == <<twin, implants>>

burstVars == <<subBurst, psys, burstRun>>

particleVars == <<burstVars, dampenCall>>

\* The variables of the aggregator and of its workloads.
bufferVars == <<instances, hasPendingModels, dynamicOffsets, device, cmdBuff, written, lastWriter,
                pristine, run, merged, inFrame, frames, aliens, growVars, shadow, regVars,
                implVars, lastOp>>

\* ------------------------------------------------------ Uint8Array helpers

\* new Uint8Array(n)
Zeros(n) == [k \in 1..n |-> 0]

\* target.set(source, offset); a source that does not fit raises RangeError
\* and leaves the target as it was.
TypedArraySet(target, source, offset) ==
    IF offset + Len(source) > Len(target) THEN target
    ELSE SubSeq(target, 1, offset) \o source
         \o SubSeq(target, offset + Len(source) + 1, Len(target))

Min(S) == CHOOSE x \in S : \A y \in S : x <= y

\* ------------------------------------------------------------------ merge

\* The two tests of the scan that skip a group (the `continue`s).
IsCandidateMissingLightmap(instance, indexBuffer, lightingMap) ==
    /\ ~(instance.ia.indexBuffer # indexBuffer \/ instance.count >= MAX_CAPACITY)

IsCandidateOffByOne(instance, indexBuffer, lightingMap) ==
    /\ ~(instance.ia.indexBuffer # indexBuffer \/ instance.count > MAX_CAPACITY)
    /\ ~(instance.lightingMap # lightingMap)

IsCandidateNever(instance, indexBuffer, lightingMap) == FALSE

IsCandidateBelowCapacity(instance, indexBuffer, lightingMap) ==
    /\ ~(instance.ia.indexBuffer # indexBuffer \/ instance.count >= instance.capacity)
    /\ ~(instance.lightingMap # lightingMap)

IsCandidateSkipsEmptied(instance, indexBuffer, lightingMap) ==
    /\ ~(instance.ia.indexBuffer # indexBuffer \/ instance.count >= MAX_CAPACITY)
    /\ ~(instance.lightingMap # lightingMap)
    /\ instance.count > 0

IsCandidate(instance, indexBuffer, lightingMap) ==
    /\ ~(instance.ia.indexBuffer # indexBuffer \/ instance.count >= MAX_CAPACITY)
    /\ ~(instance.lightingMap # lightingMap)

\* The index (from 1) of the first group the scan does not skip, 0 if none.
LastFit(insts, indexBuffer, lightingMap) ==
    LET fits == {i \in 1..Len(insts) : IsCandidate(insts[i], indexBuffer, lightingMap)}
    IN  IF fits = {} THEN 0 ELSE CHOOSE i \in fits : \A j \in fits : j <= i

FirstFit(insts, indexBuffer, lightingMap) ==
    LET fits == {i \in 1..Len(insts) : IsCandidate(insts[i], indexBuffer, lightingMap)}
    IN  IF fits = {} THEN 0 ELSE Min(fits)

\* if (instance.stride !== stride) return;
StrideMismatchIgnored(instance, stride) == FALSE

StrideMismatch(instance, stride) == instance.stride # stride

\* if (instance.count >= instance.capacity)
NeedsResizeOffByOne(instance) == instance.count > instance.capacity

NeedsResize(instance) == instance.count >= instance.capacity

\* resize buffers: capacity <<= 1, a new zeroed array with the old bytes
\* copied to its start, vb.resize(newSize).
ResizeBuffersNoCopy(instance) ==
    LET capacity == instance.capacity * 2
        newSize == instance.stride * capacity
    IN  [instance EXCEPT !.capacity = capacity,
                         !.data = Zeros(newSize),
                         !.vb = [@ EXCEPT !.size = newSize]]

ResizeBuffersNoVbResize(instance) ==
    LET capacity == instance.capacity * 2
        newSize == instance.stride * capacity
        oldData == instance.data
    IN  [instance EXCEPT !.capacity = capacity,
                         !.data = TypedArraySet(Zeros(newSize), oldData, 0)]

ResizeBuffersByInitial(instance) ==
    LET capacity == instance.capacity + INITIAL_CAPACITY
        newSize == instance.stride * capacity
        oldData == instance.data
    IN  [instance EXCEPT !.capacity = capacity,
                         !.data = TypedArraySet(Zeros(newSize), oldData, 0),
                         !.vb = [@ EXCEPT !.size = newSize]]

ResizeBuffersReplacesVb(instance) ==
    LET capacity == instance.capacity * 2
        newSize == instance.stride * capacity
        oldData == instance.data
    IN  [instance EXCEPT !.capacity = capacity,
                         !.data = TypedArraySet(Zeros(newSize), oldData, 0),
                         !.vb = [id |-> instance.vb.id + 1, size |-> newSize,
                                 stride |-> instance.stride]]

ResizeBuffersDoublesData(instance) ==
    LET capacity == instance.capacity * 2
        newSize == instance.stride * capacity
        oldData == instance.data
    IN  [instance EXCEPT !.capacity = capacity,
                         !.data = oldData \o oldData,
                         !.vb = [@ EXCEPT !.size = newSize]]

ResizeBuffersQuadruple(instance) ==
    LET capacity == instance.capacity * 4
        newSize == instance.stride * capacity
        oldData == instance.data
    IN  [instance EXCEPT !.capacity = capacity,
                         !.data = TypedArraySet(Zeros(newSize), oldData, 0),
                         !.vb = [@ EXCEPT !.size = newSize]]

ResizeBuffers(instance) ==
    LET capacity == instance.capacity * 2
        newSize == instance.stride * capacity
        oldData == instance.data
    IN  [instance EXCEPT !.capacity = capacity,
                         !.data = TypedArraySet(Zeros(newSize), oldData, 0),
                         !.vb = [@ EXCEPT !.size = newSize]]

\* The handles follow the submission, the payload goes to slot `count`,
\* count is incremented.
WriteInstanceKeepsHandles(instance, buffer, hShader, hDescriptorSet) ==
    [instance EXCEPT !.data = TypedArraySet(@, buffer, instance.stride * instance.count),
                     !.count = @ + 1]

WriteInstanceCountsTwice(instance, buffer, hShader, hDescriptorSet) ==
    [instance EXCEPT !.hShader = hShader,
                     !.hDescriptorSet = hDescriptorSet,
                     !.data = TypedArraySet(@, buffer, instance.stride * instance.count),
                     !.count = @ + 2]

WriteInstance(instance, buffer, hShader, hDescriptorSet) ==
    [instance EXCEPT !.hShader = hShader,
                     !.hDescriptorSet = hDescriptorSet,
                     !.data = TypedArraySet(@, buffer, instance.stride * instance.count),
                     !.count = @ + 1]

\* The match branch of the scan.
AppendInstance(instance, buffer, hShader, hDescriptorSet) ==
    WriteInstance(IF NeedsResize(instance) THEN ResizeBuffers(instance) ELSE instance,
                  buffer, hShader, hDescriptorSet)

\* this._device.createBuffer(new GFXBufferInfo(usage, memUsage, size, stride))
CreateBuffer(id, size, stride) == [id |-> id, size |-> size, stride |-> stride]

\* The attributes of the new input assembler: the source's, then one
\* instance-rate attribute per descriptor of the block, on the new stream.
InstancedAttributes(sourceIA, attrs) ==
    sourceIA.attributes \o
    [k \in 1..Len(attrs.attributes) |->
        [name |-> attrs.attributes[k].name, format |-> attrs.attributes[k].format,
         isNormalized |-> attrs.attributes[k].isNormalized,
         stream |-> Len(sourceIA.vertexBuffers), isInstanced |-> TRUE]]

\* this._device.createInputAssembler(new GFXInputAssemblerInfo(...))
CreateInputAssembler(id, attributes, vertexBuffers, indexBuffer) ==
    [id |-> id, attributes |-> attributes, vertexBuffers |-> vertexBuffers,
     indexBuffer |-> indexBuffer, instanceCount |-> 0]

\* sourceIA.vertexBuffers.slice(), sourceIA.attributes.slice(): the new vb
\* and the new attributes are pushed onto copies, and the submission's
\* input assembler is after the call what it was before.
SourceAfterCreateAliased(sourceIA, attrs, vbId) ==
    [sourceIA EXCEPT !.vertexBuffers = Append(@, vbId),
                     !.attributes = InstancedAttributes(sourceIA, attrs)]

SourceAfterCreate(sourceIA, attrs, vbId) == sourceIA

\* Create a new instance.
NewInstanceNoPayload(sourceIA, attrs, lightingMap, hShader, hDescriptorSet, vbId, iaId) ==
    LET stride == Len(attrs.buffer)
        vb == CreateBuffer(vbId, stride * INITIAL_CAPACITY, stride)
        data == Zeros(stride * INITIAL_CAPACITY)
        ia == CreateInputAssembler(iaId, InstancedAttributes(sourceIA, attrs),
                                   Append(sourceIA.vertexBuffers, vbId),
                                   sourceIA.indexBuffer)
    IN  [count |-> 1, capacity |-> INITIAL_CAPACITY, vb |-> vb, data |-> data, ia |-> ia,
         stride |-> stride, hShader |-> hShader, hDescriptorSet |-> hDescriptorSet,
         lightingMap |-> lightingMap]

NewInstance(sourceIA, attrs, lightingMap, hShader, hDescriptorSet, vbId, iaId) ==
    LET stride == Len(attrs.buffer)
        vb == CreateBuffer(vbId, stride * INITIAL_CAPACITY, stride)
        data == TypedArraySet(Zeros(stride * INITIAL_CAPACITY), attrs.buffer, 0)
        ia == CreateInputAssembler(iaId, InstancedAttributes(sourceIA, attrs),
                                   Append(sourceIA.vertexBuffers, vbId),
                                   sourceIA.indexBuffer)
    IN  [count |-> 1, capacity |-> INITIAL_CAPACITY, vb |-> vb, data |-> data, ia |-> ia,
         stride |-> stride, hShader |-> hShader, hDescriptorSet |-> hDescriptorSet,
         lightingMap |-> lightingMap]

\* The compatibility key of a merge, and the keys no merge has.
KeyOf(sourceIA, lightingMap, stride) ==
    [indexBuffer |-> sourceIA.indexBuffer, lightingMap |-> lightingMap, stride |-> stride]
NoKey == [indexBuffer |-> "none", lightingMap |-> "none", stride |-> 0]
MixedKey == [indexBuffer |-> "mixed", lightingMap |-> "mixed", stride |-> 0]

RunAfter(key) ==
    [run EXCEPT !.n = @ + 1,
                !.key = IF run.n = 0 THEN key ELSE IF run.key = key THEN key ELSE MixedKey]

\* What `written` keeps of a recorded submission: its index buffer, its
\* lightmap texture and its payload.
Recorded(key, buffer) == <<key.indexBuffer, key.lightingMap, buffer>>
IndexBufferOf(entry) == entry[1]
LightingMapOf(entry) == entry[2]
PayloadOf(entry) == entry[3]
StrideOf(entry) == Len(entry[3])
KeyOfEntry(entry) ==
    [indexBuffer |-> entry[1], lightingMap |-> entry[2], stride |-> Len(entry[3])]

\* The input assembler no call was given.
NoIA == [indexBuffer |-> "none", vertexBuffers |-> <<>>, attributes |-> <<>>]

MergeOp(key, buffer, outcome, slot, sourceIA) ==
    [op |-> "merge", key |-> key, buffer |-> buffer, outcome |-> outcome, slot |-> slot,
     sourceIA |-> sourceIA]

\* What `lastWriter` keeps of a recorded submission: what merge reads its
\* handles from.
Submitted(subModel, passIdx) ==
    [shaders |-> subModel.shaders, hDescriptorSet |-> subModel.hDescriptorSet,
     passIdx |-> passIdx]

\* SubModelPool.get(subModel.handle, SubModelView.SHADER_0 + passIdx): the
\* override hShaderImplant is not read.
ShaderHandleImplanted(subModel, passIdx, hShaderImplant) ==
    IF hShaderImplant # NULL_SHADER THEN hShaderImplant ELSE subModel.shaders[passIdx + 1]

ShaderHandle(subModel, passIdx, hShaderImplant) == subModel.shaders[passIdx + 1]

\* if (!stride) return;
IsEmptyBlockNever(stride) == FALSE

IsEmptyBlock(stride) == stride = 0

\* merge on an aggregator with groups `insts`, flag `pending` and device
\* `dev`: what it leaves of the three, what it did (outcome) and to which
\* group (slot).
MergeResult(insts, pending, dev, subModel, attrs, passIdx, hShaderImplant) ==
    LET stride == Len(attrs.buffer)
        sourceIA == subModel.inputAssembler
        lightingMap == subModel.lightmap
        hShader == ShaderHandle(subModel, passIdx, hShaderImplant)
        hDescriptorSet == subModel.hDescriptorSet
        i == FirstFit(insts, sourceIA.indexBuffer, lightingMap)
    IN  IF IsEmptyBlock(stride) THEN
            [instances |-> insts, hasPendingModels |-> pending, device |-> dev,
             outcome |-> "empty", slot |-> 0, sourceIA |-> sourceIA]
        ELSE IF i # 0 /\ StrideMismatch(insts[i], stride) THEN
            [instances |-> insts, hasPendingModels |-> pending, device |-> dev,
             outcome |-> "abort", slot |-> i, sourceIA |-> sourceIA]
        ELSE IF i # 0 THEN
            [instances |-> [insts EXCEPT
                              ![i] = AppendInstance(@, attrs.buffer, hShader, hDescriptorSet)],
             hasPendingModels |-> TRUE, device |-> dev,
             outcome |-> "append", slot |-> i, sourceIA |-> sourceIA]
        ELSE
            [instances |-> Append(insts,
                              NewInstance(sourceIA, attrs, lightingMap, hShader, hDescriptorSet,
                                          dev.buffers + 1, dev.assemblers + 1)),
             hasPendingModels |-> TRUE,
             device |-> [dev EXCEPT !.buffers = @ + 1, !.assemblers = @ + 1],
             outcome |-> "create", slot |-> Len(insts) + 1,
             sourceIA |-> SourceAfterCreate(sourceIA, attrs, dev.buffers + 1)]

Merge(subModel, attrs, passIdx, hShaderImplant) ==
    LET key == KeyOf(subModel.inputAssembler, subModel.lightmap, Len(attrs.buffer))
        r == MergeResult(instances, hasPendingModels, device,
                         subModel, attrs, passIdx, hShaderImplant)
    IN  /\ instances' = r.instances
        /\ hasPendingModels' = r.hasPendingModels
        /\ device' = r.device
        /\ UNCHANGED <<dynamicOffsets, cmdBuff>>
        /\ lastOp' = MergeOp(key, attrs.buffer, r.outcome, r.slot, r.sourceIA)
        /\ run' = IF r.outcome = "empty" THEN run ELSE RunAfter(key)
        /\ written' = CASE r.outcome = "append" ->
                              [written EXCEPT ![r.slot] = Append(@, Recorded(key, attrs.buffer))]
                         [] r.outcome = "create" ->
                              Append(written, <<Recorded(key, attrs.buffer)>>)
                         [] OTHER -> written
        /\ lastWriter' = CASE r.outcome = "append" ->
                                 [lastWriter EXCEPT ![r.slot] = Submitted(subModel, passIdx)]
                            [] r.outcome = "create" ->
                                 Append(lastWriter, Submitted(subModel, passIdx))
                            [] OTHER -> lastWriter
        /\ pristine' = IF r.outcome = "create" THEN Append(pristine, TRUE) ELSE pristine

\* ---------------------------------------------------------- uploadBuffers

\* if (!instance.count) continue;
HasInstancesAlways(instance) == TRUE

HasInstances(instance) == instance.count # 0

\* instance.ia.instanceCount = instance.count
WithInstanceCountOfCapacity(instance) ==
    [instance EXCEPT !.ia = [@ EXCEPT !.instanceCount = instance.capacity]]

WithInstanceCount(instance) ==
    [instance EXCEPT !.ia = [@ EXCEPT !.instanceCount = instance.count]]

\* The groups after uploadBuffers.
Uploaded(insts) ==
    [i \in 1..Len(insts) |->
        IF HasInstances(insts[i]) THEN WithInstanceCount(insts[i]) ELSE insts[i]]

UploadBuffers ==
    LET live == {i \in 1..Len(instances) : HasInstances(instances[i])}
        Updates[i \in 0..Len(instances)] ==
            IF i = 0 THEN <<>>
            ELSE IF i \in live
                 THEN Append(Updates[i - 1], [vb |-> instances[i].vb.id, data |-> instances[i].data])
                 ELSE Updates[i - 1]
    IN  /\ instances' = Uploaded(instances)
        /\ cmdBuff' = Updates[Len(instances)]
        /\ lastOp' = [op |-> "uploadBuffers", key |-> NoKey, buffer |-> <<>>, outcome |-> "done", slot |-> 0,
                sourceIA |-> NoIA]
        /\ UNCHANGED <<hasPendingModels, dynamicOffsets, device, written, lastWriter, pristine, run>>

\* ------------------------------------------------------------------ clear

ClearedReallocates(instance) ==
    [instance EXCEPT !.count = 0,
                     !.capacity = INITIAL_CAPACITY,
                     !.data = Zeros(instance.stride * INITIAL_CAPACITY)]

ClearedKeepsCount(instance) == instance

Cleared(instance) == [instance EXCEPT !.count = 0]

\* The groups after clear.
ClearedAll(insts) == [i \in 1..Len(insts) |-> Cleared(insts[i])]

ClearKeepsPending ==
    /\ instances' = [i \in 1..Len(instances) |-> Cleared(instances[i])]
    /\ written' = [i \in 1..Len(instances) |-> <<>>]
    /\ pristine' = [i \in 1..Len(instances) |-> FALSE]
    /\ run' = IF instances = <<>> THEN [fresh |-> TRUE, n |-> 0, key |-> NoKey]
              ELSE [run EXCEPT !.fresh = FALSE]
    /\ lastOp' = [op |-> "clear", key |-> NoKey, buffer |-> <<>>, outcome |-> "done", slot |-> 0,
                sourceIA |-> NoIA]
    /\ UNCHANGED <<hasPendingModels, dynamicOffsets, device, cmdBuff, lastWriter>>

Clear ==
    /\ instances' = ClearedAll(instances)
    /\ hasPendingModels' = FALSE
    /\ written' = [i \in 1..Len(instances) |-> <<>>]
    /\ pristine' = [i \in 1..Len(instances) |-> FALSE]
    /\ run' = IF instances = <<>> THEN [fresh |-> TRUE, n |-> 0, key |-> NoKey]
              ELSE [run EXCEPT !.fresh = FALSE]
    /\ lastOp' = [op |-> "clear", key |-> NoKey, buffer |-> <<>>, outcome |-> "done", slot |-> 0,
                sourceIA |-> NoIA]
    /\ UNCHANGED <<dynamicOffsets, device, cmdBuff, lastWriter>>

\* ---------------------------------------------------------------- destroy

\* The device after destroy: every vb and every ia has received destroy().
Released(dev, insts) ==
    [dev EXCEPT
        !.destroyedBuffers = @ \o [i \in 1..Len(insts) |-> insts[i].vb.id],
        !.destroyedAssemblers = @ \o [i \in 1..Len(insts) |-> insts[i].ia.id]]

DestroyLeaksAssemblers ==
    /\ device' = [device EXCEPT
                    !.destroyedBuffers = @ \o [i \in 1..Len(instances) |-> instances[i].vb.id]]
    /\ instances' = <<>>
    /\ written' = <<>>
    /\ lastWriter' = <<>>
    /\ pristine' = <<>>
    /\ run' = [fresh |-> TRUE, n |-> 0, key |-> NoKey]
    /\ lastOp' = [op |-> "destroy", key |-> NoKey, buffer |-> <<>>, outcome |-> "done", slot |-> 0,
                sourceIA |-> NoIA]
    /\ UNCHANGED <<hasPendingModels, dynamicOffsets, cmdBuff>>

DestroyKeepsGroups ==
    /\ device' = [device EXCEPT
                    !.destroyedBuffers = @ \o [i \in 1..Len(instances) |-> instances[i].vb.id],
                    !.destroyedAssemblers = @ \o [i \in 1..Len(instances) |-> instances[i].ia.id]]
    /\ lastOp' = [op |-> "destroy", key |-> NoKey, buffer |-> <<>>, outcome |-> "done", slot |-> 0,
                sourceIA |-> NoIA]
    /\ UNCHANGED <<instances, written, lastWriter, pristine, run, hasPendingModels,
                   dynamicOffsets, cmdBuff>>

Destroy ==
    /\ device' = Released(device, instances)
    /\ instances' = <<>>
    /\ written' = <<>>
    /\ lastWriter' = <<>>
    /\ pristine' = <<>>
    /\ run' = [fresh |-> TRUE, n |-> 0, key |-> NoKey]
    /\ lastOp' = [op |-> "destroy", key |-> NoKey, buffer |-> <<>>, outcome |-> "done", slot |-> 0,
                sourceIA |-> NoIA]
    /\ UNCHANGED <<hasPendingModels, dynamicOffsets, cmdBuff>>

\* -------------------------------------------------------------------- get

\* A Map or a Record: a function whose domain is the keys that are set.
EmptyMap == [k \in {} |-> 0]

MapSet(map, key, value) ==
    [k \in DOMAIN map \cup {key} |-> IF k = key THEN value ELSE map[k]]

\* record[extraKey], 0 standing for undefined
LookupNothing(record, extraKey) == 0

Lookup(record, extraKey) ==
    IF extraKey \in DOMAIN record THEN record[extraKey] ELSE 0

\* InstancedBuffer.get(pass, extraKey = 0); arg is what the caller passed
\* for extraKey, UNDEFINED if nothing.
Get(pass, arg) ==
    LET extraKey == IF arg = UNDEFINED THEN 0 ELSE arg
        withPass == IF pass \notin DOMAIN buffers THEN MapSet(buffers, pass, EmptyMap)
                    ELSE buffers
        record == withPass[pass]
        found == Lookup(record, extraKey)
        aggregator == IF found # 0 THEN found ELSE created + 1
    IN  /\ buffers' = IF found # 0 THEN withPass
                      ELSE MapSet(withPass, pass, MapSet(record, extraKey, aggregator))
        /\ created' = IF found # 0 THEN created ELSE created + 1
        /\ handed' = handed \cup {<<pass, arg, aggregator>>}
        /\ lastGet' = [aggregator |-> aggregator,
                       destroyed |-> aggregator = 1 /\ lastOp.op = "destroy"]

\* --------------------------------------------------------- specifications

\* What a frame leaves behind when clear closes it.
NoFrame ==
    [cleared |-> FALSE, len |-> 0, alienAt |-> {}, route |-> <<>>, groups |-> 0,
     capacities |-> <<>>, sizes |-> <<>>, buffers |-> 0, assemblers |-> 0]

ClosedFrame ==
    [cleared |-> TRUE, len |-> inFrame, alienAt |-> alienAt, route |-> route,
     groups |-> Len(instances),
     capacities |-> [i \in 1..Len(instances) |-> instances[i].capacity],
     sizes |-> [i \in 1..Len(instances) |-> instances[i].vb.size],
     buffers |-> device.buffers, assemblers |-> device.assemblers]

\* new InstancedBuffer(pass), on a device of its own, set beside the
\* aggregator when it is destroyed and given every merge made from then on;
\* `stale` is hasPendingModels as destroy found it.
NoShadow ==
    [tracking |-> FALSE, stale |-> FALSE, instances |-> <<>>, hasPendingModels |-> FALSE,
     device |-> [buffers |-> 0, assemblers |-> 0,
                 destroyedBuffers |-> <<>>, destroyedAssemblers |-> <<>>]]

NewShadow == [NoShadow EXCEPT !.tracking = TRUE, !.stale = hasPendingModels]

ShadowMerged(subModel, attrs, passIdx, hShaderImplant) ==
    LET r == MergeResult(shadow.instances, shadow.hasPendingModels, shadow.device,
                         subModel, attrs, passIdx, hShaderImplant)
    IN  IF shadow.tracking
        THEN [shadow EXCEPT !.instances = r.instances,
                            !.hasPendingModels = r.hasPendingModels,
                            !.device = r.device]
        ELSE shadow

\* The second run: an aggregator given the calls the first is given, its
\* merges with overrides of their own.
NewTwin ==
    [instances |-> <<>>, hasPendingModels |-> FALSE,
     device |-> [buffers |-> 0, assemblers |-> 0,
                 destroyedBuffers |-> <<>>, destroyedAssemblers |-> <<>>]]

NoImplants == [own |-> NULL_SHADER, twin |-> NULL_SHADER]

TwinMerged(subModel, attrs, passIdx, hShaderImplant) ==
    LET r == MergeResult(twin.instances, twin.hasPendingModels, twin.device,
                         subModel, attrs, passIdx, hShaderImplant)
    IN  [instances |-> r.instances, hasPendingModels |-> r.hasPendingModels,
         device |-> r.device]

TwinUploaded == [twin EXCEPT !.instances = Uploaded(@)]

TwinCleared == [twin EXCEPT !.instances = ClearedAll(@), !.hasPendingModels = FALSE]

TwinDestroyed == [twin EXCEPT !.instances = <<>>,
                              !.device = Released(twin.device, twin.instances)]

\* --------------------------------------------------------------- SubBurst

\* The fields of a SubBurst after construction.
NewSubBurst ==
    [time |-> 0, repeatCount |-> 1, repeatInterval |-> 1, remainingCount |-> 0,
     curTime |-> 0, finish |-> FALSE, current |-> 0, delayTime |-> 0]

\* The bursts given to copy, times in ticks.
Bursts ==
    [time : 0..MaxBurstTime, repeatCount : 1..MaxRepeatCount,
     repeatInterval : 0..MaxRepeatInterval]

NoBurst == [time |-> 0, repeatCount |-> 0, repeatInterval |-> 0]

\* set time (val)
SetTime(b, val) == [b EXCEPT !.time = val, !.curTime = val]

\* set repeatCount (val)
SetRepeatCount(b, val) == [b EXCEPT !.repeatCount = val, !.remainingCount = val]

\* copy (burst)
Copied(b, burst) ==
    [SetRepeatCount(SetTime(b, burst.time), burst.repeatCount) EXCEPT
        !.repeatInterval = burst.repeatInterval,
        !.current = burst.repeatInterval,
        !.delayTime = 0,
        !.finish = FALSE]

\* this._delayTime > this._time && this._current >= this.repeatInterval
IsDueUndelayed(b) == b.current >= b.repeatInterval

IsDue(b) == b.delayTime > b.time /\ b.current >= b.repeatInterval

\* update calls this._ps.emit
Emits(b) == b.remainingCount > 0 /\ IsDue(b)

\* update (dt, parentParticle): the fields it leaves
Updated(b, dt) ==
    LET emitted == IF Emits(b)
                   THEN [b EXCEPT !.remainingCount = @ - 1, !.current = 0]
                   ELSE b
        advanced == [emitted EXCEPT
                        !.current = IF emitted.delayTime > emitted.time THEN @ + dt ELSE @,
                        !.delayTime = @ + dt]
    IN  IF advanced.remainingCount = 0
        THEN [advanced EXCEPT !.finish = TRUE,
                              !.current = advanced.repeatInterval,
                              !.delayTime = 0]
        ELSE advanced

\* The calls made on the SubBurst: how many copies, the burst copied last,
\* the emit calls and the time passed to update since, and the latest call.
NewBurstRun ==
    [copies |-> 0, burst |-> NoBurst, emitted |-> 0, elapsed |-> 0, call |-> "new"]

CopyBurst ==
    /\ burstRun.copies < MaxCopies
    /\ \E burst \in Bursts :
            /\ subBurst' = Copied(subBurst, burst)
            /\ burstRun' = [copies |-> burstRun.copies + 1, burst |-> burst,
                            emitted |-> 0, elapsed |-> 0, call |-> "copy"]
    /\ UNCHANGED psys
    /\ UNCHANGED <<bufferVars, dampenCall>>

UpdateBurst ==
    /\ \E dt \in 1..MaxDt :
            /\ subBurst' = Updated(subBurst, dt)
            /\ burstRun' = [burstRun EXCEPT
                                !.emitted = IF Emits(subBurst) THEN @ + 1 ELSE @,
                                !.elapsed = IF subBurst.finish THEN @ ELSE @ + dt,
                                !.call = "update"]
    /\ psys' = [isPlaying |-> psys.isPlaying \/ subBurst.remainingCount > 0,
                emitCalls |-> IF Emits(subBurst) THEN psys.emitCalls + 1 ELSE psys.emitCalls]
    /\ UNCHANGED <<bufferVars, dampenCall>>

NextBurst == CopyBurst \/ UpdateBurst

\* ------------------------------------------------------ dampenBeyondLimit

\* Math.sign, Math.abs
Sign(x) == IF x > 0 THEN 1 ELSE IF x < 0 THEN -1 ELSE 0

Abs(x) == IF x < 0 THEN -x ELSE x

\* dampenBeyondLimit(vel, limit, dampen / DampenScale) * DampenScale: the
\* arithmetic is exact, dampen being given and the result returned in
\* parts of DampenScale.
DampenBeyondLimitUnclamped(vel, limit, dampen) ==
    LET sgn == Sign(vel)
        abs == Abs(vel)
        absToGive == abs * DampenScale - abs * dampen
    IN  IF abs > limit THEN absToGive * sgn ELSE abs * DampenScale * sgn

DampenBeyondLimit(vel, limit, dampen) ==
    LET sgn == Sign(vel)
        abs == Abs(vel)
        absToGive == abs * DampenScale - abs * dampen
    IN  IF abs > limit
        THEN IF absToGive > limit * DampenScale
             THEN absToGive * sgn
             ELSE limit * DampenScale * sgn
        ELSE abs * DampenScale * sgn

NoDampenCall == [vel |-> 0, limit |-> 0, dampen |-> 0, result |-> 0, returned |-> FALSE]

CallDampen ==
    /\ ~dampenCall.returned
    /\ dampenCall' = [dampenCall EXCEPT
                         !.result = DampenBeyondLimit(dampenCall.vel, dampenCall.limit,
                                                      dampenCall.dampen),
                         !.returned = TRUE]
    /\ UNCHANGED <<bufferVars, burstVars>>

NextDampen == CallDampen

\* The group the latest merge was recorded in, 0 if it was dropped.
Routed(op) == IF op.outcome \in {"append", "create"} THEN op.slot ELSE 0

InitIdle ==
    /\ instances = <<>>
    /\ hasPendingModels = FALSE
    /\ dynamicOffsets = <<>>
    /\ device = [buffers |-> 0, assemblers |-> 0,
                 destroyedBuffers |-> <<>>, destroyedAssemblers |-> <<>>]
    /\ cmdBuff = <<>>
    /\ written = <<>>
    /\ lastWriter = <<>>
    /\ pristine = <<>>
    /\ run = [fresh |-> TRUE, n |-> 0, key |-> NoKey]
    /\ merged = 0
    /\ inFrame = 0
    /\ frames = 0
    /\ aliens = 0
    /\ alienAt = {}
    /\ route = <<>>
    /\ lastFrame = NoFrame
    /\ shadow = NoShadow
    /\ buffers = EmptyMap
    /\ created = 0
    /\ handed = {}
    /\ lastGet = [aggregator |-> 0, destroyed |-> FALSE]
    /\ gets = 0
    /\ twin = NewTwin
    /\ implants = NoImplants
    /\ subBurst = NewSubBurst
    /\ psys = [isPlaying |-> FALSE, emitCalls |-> 0]
    /\ burstRun = NewBurstRun
    /\ lastOp = [op |-> "init", key |-> NoKey, buffer |-> <<>>, outcome |-> "done", slot |-> 0,
                sourceIA |-> NoIA]

Init ==
    /\ InitIdle
    /\ dampenCall = NoDampenCall

\* Any arguments of dampenBeyondLimit, dampen in parts of DampenScale.
InitDampen ==
    /\ InitIdle
    /\ dampenCall \in [vel : -MaxVel..MaxVel, limit : 0..MaxLimit,
                       dampen : -1..(DampenScale + 1), result : {0}, returned : {FALSE}]

\* Any sequence of calls.
MergeAny ==
    /\ merged < MaxMerges
    /\ \E call \in Calls, hShaderImplant \in ShaderImplants :
            /\ Merge(call[1], call[2], call[3], hShaderImplant)
            /\ shadow' = ShadowMerged(call[1], call[2], call[3], hShaderImplant)
    /\ merged' = merged + 1 /\ inFrame' = inFrame + 1
    /\ UNCHANGED <<frames, aliens, growVars>>
    /\ UNCHANGED <<regVars, implVars, particleVars>>

UploadAny ==
    /\ UploadBuffers
    /\ shadow' = NoShadow
    /\ UNCHANGED <<merged, inFrame, frames, aliens, growVars>>
    /\ UNCHANGED <<regVars, implVars, particleVars>>

ClearAny ==
    /\ frames < MaxFrames
    /\ Clear
    /\ shadow' = NoShadow
    /\ inFrame' = 0 /\ frames' = frames + 1
    /\ UNCHANGED <<merged, aliens, growVars>>
    /\ UNCHANGED <<regVars, implVars, particleVars>>

DestroyAny ==
    /\ frames < MaxFrames
    /\ Destroy
    /\ shadow' = NewShadow
    /\ inFrame' = 0 /\ frames' = frames + 1
    /\ UNCHANGED <<merged, aliens, growVars>>
    /\ UNCHANGED <<regVars, implVars, particleVars>>

Next == MergeAny \/ UploadAny \/ ClearAny \/ DestroyAny

Spec == Init /\ [][Next]_vars

\* Long frames of one submission, each run as the renderer runs a frame:
\* the merges, then uploadBuffers, then clear (or destroy). A frame may hold
\* one stride-1 block of the same submission: after 1024 merges, or first in
\* the frame once a stride-1 group exists. A frame without merges is
\* uploaded and ends the run.
MergeGrow ==
    /\ merged < GrowMerges
    /\ lastOp.op # "uploadBuffers"
    /\ Merge(GrowSubModel, GrowAttrs(inFrame - aliens), 0, NULL_SHADER)
    /\ merged' = merged + 1 /\ inFrame' = inFrame + 1
    /\ route' = Append(route, Routed(lastOp'))
    /\ UNCHANGED <<frames, aliens, alienAt, lastFrame, shadow, implVars, particleVars>>
    /\ UNCHANGED regVars

MergeAlien ==
    /\ merged < GrowMerges
    /\ lastOp.op # "uploadBuffers"
    /\ aliens = 0
    /\ inFrame \in AlienPoints
    /\ inFrame = 0 => \E i \in 1..Len(instances) : instances[i].stride = Len(AlienAttrs.buffer)
    /\ Merge(GrowSubModel, AlienAttrs, 0, NULL_SHADER)
    /\ merged' = merged + 1 /\ inFrame' = inFrame + 1
    /\ aliens' = aliens + 1
    /\ alienAt' = alienAt \cup {inFrame}
    /\ route' = Append(route, Routed(lastOp'))
    /\ UNCHANGED <<frames, lastFrame, shadow, implVars, particleVars>>
    /\ UNCHANGED regVars

UploadGrow ==
    /\ inFrame \in GrowFrameEnds
    /\ lastOp.op = "merge"
    /\ frames < GrowFrames
    /\ UploadBuffers
    /\ UNCHANGED <<merged, inFrame, frames, aliens, growVars, shadow, implVars, particleVars>>
    /\ UNCHANGED regVars

UploadIdle ==
    /\ lastOp.op = "clear"
    /\ UploadBuffers
    /\ UNCHANGED <<merged, inFrame, frames, aliens, growVars, shadow, implVars, particleVars>>
    /\ UNCHANGED regVars

ClearGrow ==
    /\ lastOp.op = "uploadBuffers"
    /\ inFrame \in GrowFrameEnds
    /\ Clear
    /\ lastFrame' = ClosedFrame
    /\ inFrame' = 0 /\ aliens' = 0 /\ frames' = frames + 1
    /\ alienAt' = {} /\ route' = <<>>
    /\ UNCHANGED <<merged, shadow, implVars, particleVars>>
    /\ UNCHANGED regVars

DestroyGrow ==
    /\ lastOp.op = "uploadBuffers"
    /\ inFrame \in GrowDestroyPoints
    /\ Destroy
    /\ lastFrame' = NoFrame
    /\ inFrame' = 0 /\ aliens' = 0 /\ frames' = frames + 1
    /\ alienAt' = {} /\ route' = <<>>
    /\ UNCHANGED <<merged, shadow, implVars, particleVars>>
    /\ UNCHANGED regVars

NextGrow == MergeGrow \/ MergeAlien \/ UploadGrow \/ UploadIdle \/ ClearGrow \/ DestroyGrow

SpecGrow == Init /\ [][NextGrow]_vars

\* The registry, with the calls on the first aggregator it constructed
\* (the one whose fields the variables above hold) in any order between
\* the get calls.
GetAny ==
    /\ gets < MaxGets
    /\ \E pass \in Passes, arg \in ExtraKeys \cup {UNDEFINED} : Get(pass, arg)
    /\ gets' = gets + 1
    /\ UNCHANGED <<instances, hasPendingModels, dynamicOffsets, device, cmdBuff, written,
                   lastWriter, pristine, run, merged, inFrame, frames, aliens, growVars, shadow, implVars, particleVars, lastOp>>

MergeFirst ==
    /\ created >= 1
    /\ merged < RegistryMerges
    /\ \E call \in RegistryCalls : Merge(call[1], call[2], call[3], NULL_SHADER)
    /\ merged' = merged + 1 /\ inFrame' = inFrame + 1
    /\ UNCHANGED <<frames, aliens, growVars, shadow, regVars, implVars, particleVars>>

UploadFirst ==
    /\ created >= 1
    /\ UploadBuffers
    /\ UNCHANGED <<merged, inFrame, frames, aliens, growVars, shadow, regVars, implVars, particleVars>>

ClearFirst ==
    /\ created >= 1
    /\ frames < MaxFrames
    /\ Clear
    /\ inFrame' = 0 /\ frames' = frames + 1
    /\ UNCHANGED <<merged, aliens, growVars, shadow, regVars, implVars, particleVars>>

DestroyFirst ==
    /\ created >= 1
    /\ frames < MaxFrames
    /\ Destroy
    /\ inFrame' = 0 /\ frames' = frames + 1
    /\ UNCHANGED <<merged, aliens, growVars, shadow, regVars, implVars, particleVars>>

NextRegistry == GetAny \/ MergeFirst \/ UploadFirst \/ ClearFirst \/ DestroyFirst

SpecRegistry == Init /\ [][NextRegistry]_vars

\* Two runs of one sequence of calls, the merges of the second with
\* overrides of their own.
MergeTwice ==
    /\ merged < ImplantMerges
    /\ \E call \in Calls, own \in ShaderImplants, other \in ShaderImplants :
            /\ Merge(call[1], call[2], call[3], own)
            /\ twin' = TwinMerged(call[1], call[2], call[3], other)
            /\ implants' = [own |-> own, twin |-> other]
    /\ merged' = merged + 1 /\ inFrame' = inFrame + 1
    /\ UNCHANGED <<frames, aliens, growVars, shadow, regVars, particleVars>>

UploadTwice ==
    /\ UploadBuffers
    /\ twin' = TwinUploaded
    /\ implants' = NoImplants
    /\ UNCHANGED <<merged, inFrame, frames, aliens, growVars, shadow, regVars, particleVars>>

ClearTwice ==
    /\ frames < ImplantFrames
    /\ Clear
    /\ twin' = TwinCleared
    /\ implants' = NoImplants
    /\ inFrame' = 0 /\ frames' = frames + 1
    /\ UNCHANGED <<merged, aliens, growVars, shadow, regVars, particleVars>>

DestroyTwice ==
    /\ frames < ImplantFrames
    /\ Destroy
    /\ twin' = TwinDestroyed
    /\ implants' = NoImplants
    /\ inFrame' = 0 /\ frames' = frames + 1
    /\ UNCHANGED <<merged, aliens, growVars, shadow, regVars, particleVars>>

NextImplant == MergeTwice \/ UploadTwice \/ ClearTwice \/ DestroyTwice

SpecImplant == Init /\ [][NextImplant]_vars

\* A SubBurst copied from a burst and updated over and over.
SpecBurst == Init /\ [][NextBurst]_vars

\* update is called again and again.
SpecBurstFair == SpecBurst /\ WF_vars(UpdateBurst)

\* One call of dampenBeyondLimit, on any arguments.
SpecDampen == InitDampen /\ [][NextDampen]_vars

\* ------------------------------------------------------------ the claims

Groups == 1..Len(instances)

\* The bytes of slot i (from 0) of a group.
Slot(instance, i) == SubSeq(instance.data, i * instance.stride + 1, (i + 1) * instance.stride)

RECURSIVE Pow2(_)
Pow2(k) == IF k <= 0 THEN 1 ELSE 2 * Pow2(k - 1)

\* ceil(log2(n / d)) for integers n, d >= 1 with 2^-6 <= n/d <= 2^12.
CeilLog2(n, d) ==
    LET reaches(k) == IF k >= 0 THEN Pow2(k) * d >= n ELSE d >= n * Pow2(-k)
    IN  CHOOSE k \in -6..12 : reaches(k) /\ (k = -6 \/ ~reaches(k - 1))

\* 32 * 2^k for an integer k >= -5
Scaled(k) == IF k >= 0 THEN INITIAL_CAPACITY * Pow2(k) ELSE INITIAL_CAPACITY \div Pow2(-k)

AtMost(a, b) == IF a <= b THEN a ELSE b
AtLeast(a, b) == IF a >= b THEN a ELSE b
CeilDiv(a, b) == (a + b - 1) \div b

\* The merges since the aggregator last had no groups were N >= 1 non-empty
\* submissions of one compatibility key, with no clear in between.
OneKeyRun == run.fresh /\ run.n >= 1 /\ run.key # MixedKey

\* The latest call was a merge of a non-empty attribute block.
MergedNonEmpty == lastOp.op = "merge" /\ lastOp.outcome # "empty"

\* The latest merge was recorded in group g.
LandedIn(g) == lastOp.op = "merge" /\ lastOp.outcome \in {"append", "create"} /\ lastOp.slot = g

\* The count of group g before the latest merge.
CountBefore(g) == instances[g].count - (IF LandedIn(g) THEN 1 ELSE 0)

\* The submissions recorded in group g in this frame before the latest merge.
WrittenBefore(g) ==
    IF LandedIn(g) THEN SubSeq(written[g], 1, Len(written[g]) - 1) ELSE written[g]

\* C1: in every reachable state every instance group has 0 <= count <= capacity.
C1_CountWithinCapacity ==
    \A g \in Groups : 0 <= instances[g].count /\ instances[g].count <= instances[g].capacity

C1_Witness ==
    \E g \in Groups : instances[g].count = instances[g].capacity /\ instances[g].capacity = 64

\* Every group's capacity is one of 32, 64, ..., 1024.
CapacityShape ==
    \A g \in Groups : instances[g].capacity \in {INITIAL_CAPACITY * Pow2(k) : k \in 0..5}
                      /\ instances[g].capacity <= MAX_CAPACITY

\* A step keeps the capacity of a group that stays, or doubles it in a merge.
CapacityStep ==
    \A g \in Groups :
        g <= Len(instances') /\ instances'[g].vb.id = instances[g].vb.id
        => \/ instances'[g].capacity = instances[g].capacity
           \/ instances'[g].capacity = 2 * instances[g].capacity /\ lastOp'.op = "merge"

\* C2: every group's capacity is 32 times a power of two and at most 1024, and
\* a group's capacity changes only by doubling, and only in a merge.
C2_CapacityDoubles == [](CapacityShape) /\ [][CapacityStep]_vars

C2_Witness ==
    \E g \in Groups : /\ instances[g].capacity = 2 * INITIAL_CAPACITY
                      /\ instances[g].count = INITIAL_CAPACITY + 1
                      /\ LandedIn(g)

\* C3: every group's data has length stride * capacity, and its vertex buffer
\* has the size of data.
C3_BufferSizes ==
    \A g \in Groups : /\ Len(instances[g].data) = instances[g].stride * instances[g].capacity
                      /\ instances[g].vb.size = Len(instances[g].data)

C3_Witness ==
    \E g \in Groups : instances[g].capacity = 128 /\ instances[g].vb.size = 256
                      /\ lastOp.outcome = "append"

\* C4: byte placement: slot i of a group holds the payload of the i-th
\* submission recorded in it since its creation or the last clear, for every
\* i < count, capacity doublings included.
C4_BytePlacement ==
    \A g \in Groups : /\ Len(written[g]) = instances[g].count
                      /\ \A i \in 0..(instances[g].count - 1) :
                            Slot(instances[g], i) = PayloadOf(written[g][i + 1])

C4_Witness ==
    \E g \in Groups : /\ instances[g].count = 33 /\ instances[g].capacity = 64
                      /\ Slot(instances[g], 0) = <<0, 0>>
                      /\ Slot(instances[g], 32) = <<32, 0>>

\* C5 as stated: after N merges of one key into an aggregator with no groups
\* the first group's capacity is 32 * 2^ceil(log2(max(1,N)/32)) capped at 1024.
C5_Original ==
    OneKeyRun /\ instances # <<>>
    => instances[1].capacity =
          AtMost(Scaled(CeilLog2(AtLeast(1, run.n), INITIAL_CAPACITY)), MAX_CAPACITY)

\* C5 amended: the exponent is not negative: the capacity is
\* 32 * 2^max(0, ceil(log2(N/32))) capped at 1024.
C5_CapacityGrowth ==
    OneKeyRun /\ instances # <<>>
    => instances[1].capacity =
          AtMost(Scaled(AtLeast(0, CeilLog2(run.n, INITIAL_CAPACITY))), MAX_CAPACITY)

C5_Witness == OneKeyRun /\ run.n = 33 /\ instances[1].capacity = 64

\* C6: every submission recorded in a group has the group's index buffer and
\* the group's lightmap texture, so submissions that differ in either are
\* never recorded in the same group.
C6_KeyPartition ==
    \A g \in Groups : \A e \in 1..Len(written[g]) :
        /\ IndexBufferOf(written[g][e]) = instances[g].ia.indexBuffer
        /\ LightingMapOf(written[g][e]) = instances[g].lightingMap

C6_Witness ==
    \E g, h \in Groups :
        /\ written[g] # <<>> /\ written[h] # <<>>
        /\ instances[g].ia.indexBuffer = instances[h].ia.indexBuffer
        /\ instances[g].lightingMap # instances[h].lightingMap
        /\ \E k \in Groups : instances[k].ia.indexBuffer # instances[g].ia.indexBuffer
                             /\ written[k] # <<>>

\* An earlier submission of this frame, recorded in group g, with the index
\* buffer and lightmap of the latest merge and another stride.
OtherStrideIn(g) ==
    \E e \in 1..Len(WrittenBefore(g)) :
        /\ IndexBufferOf(written[g][e]) = lastOp.key.indexBuffer
        /\ LightingMapOf(written[g][e]) = lastOp.key.lightingMap
        /\ StrideOf(written[g][e]) # lastOp.key.stride

\* C7 as stated: a submission with the index buffer and lightmap of an earlier
\* one and another non-zero stride is recorded, in a group other than the
\* earlier one's.
C7_Original ==
    MergedNonEmpty =>
        \A g \in Groups : OtherStrideIn(g) =>
            lastOp.outcome \in {"append", "create"} /\ lastOp.slot # g

\* C7 amended: such submissions are never recorded in the same group (every
\* submission recorded in a group has the group's stride); the later one is
\* dropped when the first group the scan stops at has another stride, and is
\* otherwise recorded in another group.
C7_StridePartition ==
    /\ \A g \in Groups : \A e \in 1..Len(written[g]) :
          StrideOf(written[g][e]) = instances[g].stride
    /\ MergedNonEmpty =>
          \A g \in Groups : OtherStrideIn(g) =>
             \/ lastOp.outcome = "abort" /\ instances[lastOp.slot].stride # lastOp.key.stride
             \/ lastOp.outcome \in {"append", "create"} /\ lastOp.slot # g

C7_Witness ==
    /\ lastOp.op = "merge" /\ lastOp.outcome = "abort"
    /\ \E g \in Groups : OtherStrideIn(g)

\* An earlier submission of this frame, recorded in group g, with the
\* compatibility key (index buffer, lightmap, stride) of the latest merge.
SameKeyIn(g) == \E e \in 1..Len(WrittenBefore(g)) : KeyOfEntry(written[g][e]) = lastOp.key

\* C8 as stated: a submission with the key of an earlier one of the frame
\* lands in the earlier one's group, unless that group had reached count 1024,
\* in which case a new group is created.
C8_Original ==
    MergedNonEmpty =>
        \A g \in Groups : SameKeyIn(g) =>
            IF CountBefore(g) < MAX_CAPACITY THEN LandedIn(g)
            ELSE lastOp.outcome = "create"

\* C8 amended: it lands in the earlier one's group if that group has
\* count < 1024; otherwise it goes past that group to the first later group
\* with its index buffer and lightmap and count < 1024, which may exist
\* already, is dropped if that group has another stride, and a new group is
\* created only when there is no such group.
C8_SameKeySameGroup ==
    MergedNonEmpty =>
        \A g \in Groups : SameKeyIn(g) =>
            IF CountBefore(g) < MAX_CAPACITY THEN LandedIn(g)
            ELSE /\ ~LandedIn(g)
                 /\ instances[g].count = MAX_CAPACITY
                 /\ lastOp.outcome \in {"append", "abort", "create"}
                 /\ lastOp.outcome = "abort"
                       => instances[lastOp.slot].stride # lastOp.key.stride
                 /\ \A h \in Groups :
                       (h < lastOp.slot \/ (lastOp.outcome = "create" /\ h # lastOp.slot))
                       => \/ instances[h].ia.indexBuffer # lastOp.key.indexBuffer
                          \/ instances[h].lightingMap # lastOp.key.lightingMap
                          \/ CountBefore(h) >= MAX_CAPACITY

C8_Witness ==
    /\ MergedNonEmpty /\ lastOp.outcome = "append" /\ lastOp.slot = 2
    /\ SameKeyIn(1) /\ CountBefore(1) = MAX_CAPACITY

\* C9: N non-empty merges of one key into an aggregator with no groups give
\* ceil(N/1024) groups of that key, all but the last with
\* count = capacity = 1024, the last with the rest.
C9_Overflow ==
    OneKeyRun =>
        /\ Len(instances) = CeilDiv(run.n, MAX_CAPACITY)
        /\ \A g \in Groups :
              /\ instances[g].ia.indexBuffer = run.key.indexBuffer
              /\ instances[g].lightingMap = run.key.lightingMap
              /\ instances[g].stride = run.key.stride
              /\ g < Len(instances) =>
                    instances[g].count = MAX_CAPACITY /\ instances[g].capacity = MAX_CAPACITY
              /\ g = Len(instances) =>
                    instances[g].count = run.n - MAX_CAPACITY * (Len(instances) - 1)

C9_Witness ==
    /\ OneKeyRun /\ run.n = 1025 /\ Len(instances) = 2
    /\ instances[1].count = 1024 /\ instances[1].capacity = 1024 /\ instances[2].count = 1

\* What a step that is a clear call does to the groups.
ClearEffect ==
    lastOp'.op = "clear" =>
        /\ hasPendingModels' = FALSE
        /\ Len(instances') = Len(instances)
        /\ \A g \in Groups :
              /\ instances'[g].count = 0
              /\ instances'[g].capacity = instances[g].capacity
              /\ instances'[g].data = instances[g].data
              /\ instances'[g].stride = instances[g].stride
              /\ instances'[g].vb = instances[g].vb
              /\ instances'[g].ia = instances[g].ia
              /\ instances'[g].hShader = instances[g].hShader
              /\ instances'[g].hDescriptorSet = instances[g].hDescriptorSet
              /\ instances'[g].lightingMap = instances[g].lightingMap

\* C10: clear sets every group's count to 0 and hasPendingModels to false and
\* changes nothing else of the groups: their number, order, capacity, data,
\* stride, vb, ia, hShader, hDescriptorSet and lightingMap stay.
C10_ClearKeepsBuffers == [][ClearEffect]_vars

C10_Witness ==
    /\ lastOp.op = "clear" /\ Len(instances) = 1
    /\ instances[1].count = 0 /\ instances[1].capacity = 2 * INITIAL_CAPACITY
    /\ Slot(instances[1], 32) = <<32, 0>>

CapacitiesOf(insts) == [i \in 1..Len(insts) |-> insts[i].capacity]

\* C11: clear followed by uploadBuffers records no buffer update, and every
\* group has after the pair the capacity it had before clear: neither call
\* changes a capacity, and the capacities after the pair are those that
\* lastFrame read before clear ran.
C11_ClearThenUpload ==
    [][/\ lastOp'.op = "clear" => CapacitiesOf(instances') = CapacitiesOf(instances)
       /\ lastOp.op = "clear" /\ lastOp'.op = "uploadBuffers" =>
             /\ cmdBuff' = <<>>
             /\ CapacitiesOf(instances') = CapacitiesOf(instances)
             /\ lastFrame.cleared => CapacitiesOf(instances') = lastFrame.capacities]_vars

C11_Witness ==
    /\ lastOp.op = "uploadBuffers" /\ inFrame = 0 /\ lastFrame.cleared
    /\ cmdBuff = <<>>
    /\ \E g \in Groups : instances[g].capacity > INITIAL_CAPACITY

\* The frame under way has so far made the calls the frame before it made.
Replaying ==
    /\ lastFrame.cleared
    /\ inFrame <= lastFrame.len
    /\ alienAt = {p \in lastFrame.alienAt : p < inFrame}

\* C12: while a frame replays the submissions of the frame closed by the
\* latest clear, there is no group, GPU buffer or input assembler that the
\* closed frame did not leave, no buffer has another size or capacity, and
\* every submission went where the same submission of the closed frame went
\* (the same group, or nowhere).
C12_SteadyState ==
    Replaying =>
        /\ Len(instances) = lastFrame.groups
        /\ device.buffers = lastFrame.buffers
        /\ device.assemblers = lastFrame.assemblers
        /\ [g \in Groups |-> instances[g].capacity] = lastFrame.capacities
        /\ [g \in Groups |-> instances[g].vb.size] = lastFrame.sizes
        /\ route = SubSeq(lastFrame.route, 1, inFrame)

C12_Witness ==
    /\ Replaying /\ lastOp.op = "merge"
    /\ inFrame = lastFrame.len
    /\ \E g \in Groups : instances[g].capacity > INITIAL_CAPACITY

\* The updates the recorder holds for the vb of group g.
UpdatesOf(g) == {k \in 1..Len(cmdBuff) : cmdBuff[k].vb = instances[g].vb.id}

\* C13: after uploadBuffers every group with count > 0 has ia.instanceCount
\* equal to count and exactly one recorded update, of its vb with its whole
\* data buffer; a group with count = 0 has no recorded update; there are as
\* many updates as groups with count > 0.
C13_UploadRecords ==
    lastOp.op = "uploadBuffers" =>
        /\ \A g \in Groups : instances[g].count > 0 =>
              /\ instances[g].ia.instanceCount = instances[g].count
              /\ Cardinality(UpdatesOf(g)) = 1
              /\ \A k \in UpdatesOf(g) :
                    /\ cmdBuff[k].data = instances[g].data
                    /\ Len(cmdBuff[k].data) = instances[g].stride * instances[g].capacity
        /\ \A g \in Groups : instances[g].count = 0 => UpdatesOf(g) = {}
        /\ Len(cmdBuff) = Cardinality({g \in Groups : instances[g].count > 0})

C13_Witness ==
    /\ lastOp.op = "uploadBuffers"
    /\ Len(cmdBuff) = 2
    /\ \E g \in Groups : instances[g].count = 0

\* The groups without the identity of the vb and ia the device created.
Anonymous(insts) ==
    [i \in 1..Len(insts) |->
        [insts[i] EXCEPT !.vb = [@ EXCEPT !.id = 0],
                         !.ia = [@ EXCEPT !.id = 0,
                                          !.vertexBuffers = Append(SubSeq(@, 1, Len(@) - 1), 0)]]]

\* C14 as stated: after destroy and any merges, instances and
\* hasPendingModels are those of a new aggregator given the same merges.
C14_Original ==
    shadow.tracking =>
        /\ Anonymous(instances) = Anonymous(shadow.instances)
        /\ hasPendingModels = shadow.hasPendingModels

\* C14: destroy leaves the group list empty, and after destroy and any
\* merges the groups are those of a new aggregator given the same merges (up
\* to which vb and ia the device created); hasPendingModels is that of the
\* new aggregator once one of the merges recorded a submission, and until
\* then is what it was before destroy.
C14_DestroyFinality ==
    /\ lastOp.op = "destroy" => instances = <<>>
    /\ shadow.tracking =>
          /\ Anonymous(instances) = Anonymous(shadow.instances)
          /\ hasPendingModels = IF shadow.instances # <<>> THEN shadow.hasPendingModels
                                ELSE shadow.stale

C14_Witness ==
    /\ shadow.tracking /\ shadow.stale
    /\ Len(instances) = 2
    /\ device.destroyedBuffers # <<>>

\* How many destroy() calls the object `id` has received.
DestroyCalls(destroyed, id) == Cardinality({k \in 1..Len(destroyed) : destroyed[k] = id})

\* C15: every vb and every ia the device created is either held by exactly
\* one group and has received no destroy() call, or is held by no group and
\* has received exactly one; right after destroy each of them has received
\* exactly one.
C15_ResourceRelease ==
    /\ \A id \in 1..device.buffers :
          /\ DestroyCalls(device.destroyedBuffers, id)
                + Cardinality({g \in Groups : instances[g].vb.id = id}) = 1
          /\ lastOp.op = "destroy" => DestroyCalls(device.destroyedBuffers, id) = 1
    /\ \A id \in 1..device.assemblers :
          /\ DestroyCalls(device.destroyedAssemblers, id)
                + Cardinality({g \in Groups : instances[g].ia.id = id}) = 1
          /\ lastOp.op = "destroy" => DestroyCalls(device.destroyedAssemblers, id) = 1
    /\ \A g \in Groups : instances[g].vb.id \in 1..device.buffers
                          /\ instances[g].ia.id \in 1..device.assemblers

\* Two destroy calls (no clear, which would have reset hasPendingModels)
\* around or after the one merge that created a group.
C15_Witness ==
    /\ lastOp.op = "destroy" /\ frames = 2 /\ merged = 1
    /\ hasPendingModels
    /\ Len(device.destroyedBuffers) = 1
    /\ Len(device.destroyedAssemblers) = 1

\* The extraKey of a get call, from what the caller passed.
ExtraKeyOf(arg) == IF arg = UNDEFINED THEN 0 ELSE arg

\* C16: two get calls with the same pass and the same extraKey (0 when it
\* was omitted) returned the same aggregator, two get calls that differ in
\* pass or extraKey returned different aggregators, whatever was called on
\* the first aggregator in between, destroy included.
C16_RegistryMemoization ==
    \A a \in handed, b \in handed :
        (a[1] = b[1] /\ ExtraKeyOf(a[2]) = ExtraKeyOf(b[2])) <=> a[3] = b[3]

\* The aggregator a get call returns right after destroy was called on it
\* is the one earlier calls returned for that pass, with extraKey 0 and
\* with extraKey omitted; a call with another extraKey got another one.
C16_Witness ==
    /\ lastGet.destroyed /\ lastOp.op = "destroy"
    /\ device.destroyedBuffers # <<>>
    /\ created = 2
    /\ \E p \in Passes : {<<p, UNDEFINED, 1>>, <<p, 0, 1>>, <<p, 1, 2>>} \subseteq handed

\* C17: a merge whose attribute block has no bytes leaves the group list
\* and every field of every group, hasPendingModels and dynamicOffsets as
\* they were, and the device has created and resized nothing.
C17_EmptyBlockNoOp ==
    [][lastOp'.op = "merge" /\ lastOp'.buffer = <<>> =>
          UNCHANGED <<instances, hasPendingModels, dynamicOffsets, device, cmdBuff>>]_vars

C17_Witness ==
    /\ lastOp.op = "merge" /\ lastOp.buffer = <<>>
    /\ instances # <<>>
    /\ ~hasPendingModels

\* The groups of insts that have the index buffer and the lightmap of the
\* merge `op` and count < 1024, and the case of C18: the first of them has
\* another stride than the payload is long.
MatchingIn(insts, op) ==
    {g \in 1..Len(insts) : /\ insts[g].ia.indexBuffer = op.key.indexBuffer
                           /\ insts[g].lightingMap = op.key.lightingMap
                           /\ insts[g].count < MAX_CAPACITY}

FirstMatchHasOtherStride(insts, op) ==
    /\ op.op = "merge" /\ op.buffer # <<>>
    /\ MatchingIn(insts, op) # {}
    /\ insts[Min(MatchingIn(insts, op))].stride # Len(op.buffer)

\* C18: a merge that finds, as the first group in creation order with its
\* index buffer and lightmap and count < 1024, a group of another stride
\* changes nothing: no group is created, grown or written, no count and no
\* device counter changes, hasPendingModels keeps its value; so also when a
\* later group has its index buffer, lightmap and stride and count < 1024.
C18_StrideMismatchAbort ==
    [][FirstMatchHasOtherStride(instances, lastOp') =>
          UNCHANGED <<instances, hasPendingModels, dynamicOffsets, device, cmdBuff, written>>]_vars

C18_Witness ==
    /\ FirstMatchHasOtherStride(instances, lastOp)
    /\ lastOp.outcome = "abort"
    /\ \E g \in MatchingIn(instances, lastOp) :
          /\ g > Min(MatchingIn(instances, lastOp))
          /\ instances[g].stride = Len(lastOp.buffer)
    /\ ~hasPendingModels

\* C19: hasPendingModels is false on a new aggregator and right after
\* clear; a merge that creates a group or appends to one leaves it true; a
\* merge or uploadBuffers that finds it true leaves it true.
C19_PendingFlag ==
    /\ [](lastOp.op \in {"init", "clear"} => ~hasPendingModels)
    /\ [][/\ lastOp'.op = "merge" /\ instances' # instances => hasPendingModels'
          /\ lastOp'.op \in {"merge", "uploadBuffers"} /\ hasPendingModels => hasPendingModels'
          /\ lastOp'.op = "clear" => ~hasPendingModels']_vars

C19_Witness ==
    /\ lastOp.op = "uploadBuffers" /\ hasPendingModels
    /\ frames = 1 /\ ~shadow.tracking
    /\ \E g \in Groups : instances[g].count = 2
    /\ Len(instances) = 2

\* C20: every group's hShader and hDescriptorSet are the shader handle, for
\* the pass index given, and the descriptor-set handle of the submission
\* recorded last in the group, by the merge that created it or by an append.
C20_LastWriterWins ==
    /\ Len(lastWriter) = Len(instances)
    /\ \A g \in Groups :
          /\ instances[g].hShader = lastWriter[g].shaders[lastWriter[g].passIdx + 1]
          /\ instances[g].hDescriptorSet = lastWriter[g].hDescriptorSet

\* A group created by one submission and then written by another, followed
\* by a dropped merge of a third: the handles are the second's.
C20_Witness ==
    /\ lastOp.op = "merge" /\ lastOp.outcome = "abort"
    /\ Len(instances) = 1
    /\ instances[1].count = 2
    /\ lastWriter[1] = Submitted(SubModelB, 0)
    /\ instances[1].hShader = 3 /\ instances[1].hDescriptorSet = 2

\* What a group is for as long as it lives: its stride, its lightmap, its
\* vb and its ia (and the ia's index buffer).
IdentityOf(instance) ==
    <<instance.stride, instance.lightingMap, instance.vb.id, instance.ia.id,
      instance.ia.indexBuffer>>

\* C21: merge, uploadBuffers and clear keep every group where it is in the
\* list, with its stride, lightingMap, vb handle, ia handle and the ia's
\* index buffer; a merge that grows a group leaves it the same vb, whose
\* size is the new data length.
C21_IdentityKept ==
    [][lastOp'.op \in {"merge", "uploadBuffers", "clear"} =>
          /\ Len(instances') >= Len(instances)
          /\ \A g \in 1..Len(instances) :
                /\ IdentityOf(instances'[g]) = IdentityOf(instances[g])
                /\ instances'[g].capacity # instances[g].capacity =>
                      instances'[g].vb.size = instances'[g].stride * instances'[g].capacity]_vars

C21_Witness ==
    /\ lastOp.op = "clear"
    /\ \E g \in Groups : /\ instances[g].capacity = 2 * INITIAL_CAPACITY
                          /\ instances[g].vb.id = g
                          /\ instances[g].vb.size = 2 * INITIAL_CAPACITY * instances[g].stride

\* The groups a step changed.
ChangedGroups == {g \in 1..Len(instances) : instances'[g] # instances[g]}

\* C22: a merge that appends to a group appends to the lowest-indexed group
\* that has the submission's index buffer and lightmap and count < 1024,
\* and a merge creates a group only when no group has all three.
C22_FirstFit ==
    [][lastOp'.op = "merge" =>
          /\ Len(instances') = Len(instances) /\ instances' # instances =>
                /\ MatchingIn(instances, lastOp') # {}
                /\ ChangedGroups = {Min(MatchingIn(instances, lastOp'))}
          /\ Len(instances') # Len(instances) => MatchingIn(instances, lastOp') = {}]_vars

\* An append to group 1 while group 2 also had the submission's index
\* buffer, lightmap and stride and count < 1024.
C22_Witness ==
    /\ lastOp.op = "merge" /\ lastOp.outcome = "append" /\ lastOp.slot = 1
    /\ Len(instances) >= 2
    /\ instances[1].count = 1
    /\ instances[2].ia.indexBuffer = lastOp.key.indexBuffer
    /\ instances[2].lightingMap = lastOp.key.lightingMap
    /\ instances[2].stride = Len(lastOp.buffer)
    /\ instances[2].count = 0

\* C23: a merge that creates a group leaves the groups there were as they
\* were and where they were, and adds one group after them: count 1,
\* capacity 32, stride the payload length, data of stride * 32 bytes with
\* the payload first and zeros after it, and a vb of size stride * 32.
C23_CreateEffect ==
    [][lastOp'.op = "merge" /\ Len(instances') # Len(instances) =>
          /\ Len(instances') = Len(instances) + 1
          /\ SubSeq(instances', 1, Len(instances)) = instances
          /\ LET new == instances'[Len(instances')]
                 stride == Len(lastOp'.buffer)
             IN  /\ new.count = 1
                 /\ new.capacity = 32
                 /\ new.stride = stride
                 /\ Len(new.data) = stride * 32
                 /\ SubSeq(new.data, 1, stride) = lastOp'.buffer
                 /\ \A k \in stride + 1..Len(new.data) : new.data[k] = 0
                 /\ new.vb.size = stride * 32]_vars

C23_Witness ==
    /\ lastOp.op = "merge" /\ lastOp.outcome = "create"
    /\ Len(instances) = 3 /\ lastOp.slot = 3
    /\ instances[3].stride = 2 /\ instances[3].data[2] # 0
    /\ instances[1].count = 0 /\ instances[2].count = 0

\* C24: merge leaves the vertexBuffers and attributes of the submission's
\* input assembler as they were; the ia of a created group has the source's
\* vertex buffers followed by the new vb, the source's attributes followed
\* by one instance-rate attribute per descriptor of the block, each on the
\* stream numbered by the count of source vertex buffers, and the source's
\* index buffer.
C24_SourceNotMutated ==
    [][lastOp'.op = "merge" =>
          LET source == SourceIA(lastOp'.key.indexBuffer)
              descriptors == AttrBlock(lastOp'.buffer).attributes
              new == instances'[Len(instances')]
              n == Len(source.attributes)
          IN  /\ lastOp'.sourceIA = source
              /\ Len(instances') # Len(instances) =>
                    /\ new.ia.vertexBuffers = source.vertexBuffers \o <<new.vb.id>>
                    /\ new.ia.indexBuffer = source.indexBuffer
                    /\ Len(new.ia.attributes) = n + Len(descriptors)
                    /\ SubSeq(new.ia.attributes, 1, n) = source.attributes
                    /\ \A k \in 1..Len(descriptors) :
                          /\ new.ia.attributes[n + k].name = descriptors[k].name
                          /\ new.ia.attributes[n + k].format = descriptors[k].format
                          /\ new.ia.attributes[n + k].isNormalized = descriptors[k].isNormalized
                          /\ new.ia.attributes[n + k].isInstanced
                          /\ new.ia.attributes[n + k].stream = Len(source.vertexBuffers)]_vars

C24_Witness ==
    /\ lastOp.op = "merge" /\ lastOp.outcome = "create"
    /\ Len(lastOp.buffer) = 2
    /\ lastOp.sourceIA = SourceIA("IB1")
    /\ Len(instances[lastOp.slot].ia.vertexBuffers) = 2
    /\ Len(instances[lastOp.slot].ia.attributes) = 3

\* C25: in a group that no clear has touched since its creation, every
\* byte of data from offset count * stride on is zero.
C25_ZeroTail ==
    /\ Len(pristine) = Len(instances)
    /\ \A g \in Groups : pristine[g] =>
          \A k \in instances[g].count * instances[g].stride + 1..Len(instances[g].data) :
              instances[g].data[k] = 0

\* A group grown to 64 slots with 33 of them written, not yet cleared.
C25_Witness ==
    \E g \in Groups : /\ pristine[g]
                      /\ instances[g].capacity = 2 * INITIAL_CAPACITY
                      /\ instances[g].count = INITIAL_CAPACITY + 1
                      /\ instances[g].data[INITIAL_CAPACITY * instances[g].stride + 1] # 0
                      /\ instances[g].data[Len(instances[g].data)] = 0

\* C26: of two groups with the same index buffer and the same lightmap, the
\* one created later has count > 0 only while the one created earlier has
\* count = 1024.
C26_OverflowOrdering ==
    \A g \in Groups, h \in Groups :
        /\ g < h
        /\ instances[g].ia.indexBuffer = instances[h].ia.indexBuffer
        /\ instances[g].lightingMap = instances[h].lightingMap
        /\ instances[h].count > 0
        => instances[g].count = 1024

\* Two groups of one index buffer, lightmap and stride: the first full, the
\* second in use.
C26_Witness ==
    /\ Len(instances) = 2
    /\ instances[1].count = 1024
    /\ instances[2].count = 1
    /\ instances[2].ia.indexBuffer = instances[1].ia.indexBuffer
    /\ instances[2].lightingMap = instances[1].lightingMap
    /\ instances[2].stride = instances[1].stride

\* Groups g and h have the same index buffer and the same lightmap.
SameBinding(insts, g, h) ==
    /\ insts[g].ia.indexBuffer = insts[h].ia.indexBuffer
    /\ insts[g].lightingMap = insts[h].lightingMap

CountsOf(insts) == [g \in 1..Len(insts) |-> insts[g].count]

SumOfCounts(insts) ==
    LET S[i \in 0..Len(insts)] == IF i = 0 THEN 0 ELSE S[i - 1] + insts[i].count
    IN  S[Len(insts)]

\* The merge `op`, made on groups insts, has a payload and is not stopped by
\* a group of another stride.
Effective(insts, op) == op.buffer # <<>> /\ ~FirstMatchHasOtherStride(insts, op)

\* What one call does to the counts.
ConservationStep ==
    /\ lastOp'.op = "merge" /\ Effective(instances, lastOp') =>
          /\ SumOfCounts(instances') = SumOfCounts(instances) + 1
          /\ Routed(lastOp') # 0
          /\ \/ /\ Len(instances') = Len(instances)
                /\ \E g \in 1..Len(instances) :
                      CountsOf(instances') = [CountsOf(instances) EXCEPT ![g] = @ + 1]
             \/ CountsOf(instances') = Append(CountsOf(instances), 1)
    /\ lastOp'.op = "merge" /\ ~Effective(instances, lastOp') =>
          /\ CountsOf(instances') = CountsOf(instances)
          /\ Routed(lastOp') = 0
    /\ lastOp'.op = "uploadBuffers" => CountsOf(instances') = CountsOf(instances)
    /\ lastOp'.op \in {"clear", "destroy"} => SumOfCounts(instances') = 0

\* C28: the counts of the groups add up to the number of merges, since the
\* latest clear or destroy, that had a payload and were not stopped by a
\* group of another stride; each of them adds one to the count of one group
\* or adds one group of count 1, and changes no other count; no other call
\* adds to a count.
C28_Conservation ==
    /\ [](/\ Len(route) = inFrame
           /\ SumOfCounts(instances) = Cardinality({k \in 1..Len(route) : route[k] # 0}))
    /\ [][ConservationStep]_vars

\* Merges of a frame, some dropped and the others counted.
C28_Witness ==
    /\ lastOp.op = "merge" /\ inFrame >= 3
    /\ \E k \in 1..Len(route) : route[k] = 0
    /\ SumOfCounts(instances) >= 1
    /\ SumOfCounts(instances) < inFrame

\* C29: whenever a group holds instances (count > 0), hasPendingModels is
\* true.
C29_PendingWhenCounted ==
    (\E g \in Groups : instances[g].count > 0) => hasPendingModels

\* A merge into a group that an earlier clear had emptied.
C29_Witness ==
    /\ lastOp.op = "merge" /\ lastOp.outcome = "append"
    /\ frames >= 1 /\ inFrame = 1
    /\ instances[lastOp.slot].count = 1
    /\ hasPendingModels

\* C30 as stated: whenever hasPendingModels is true, a group has count > 0.
C30_Original ==
    hasPendingModels => \E g \in Groups : instances[g].count > 0

\* C30: whenever hasPendingModels is true, either a group has count > 0, or
\* there is no group at all because destroy released the groups and no
\* merge has recorded a submission since.
C30_PendingImpliesCounted ==
    hasPendingModels =>
        \/ \E g \in Groups : instances[g].count > 0
        \/ instances = <<>> /\ device.destroyedBuffers # <<>>

\* uploadBuffers after destroy: the flag is still set and no group is left.
C30_Witness ==
    /\ lastOp.op = "uploadBuffers"
    /\ hasPendingModels
    /\ instances = <<>>
    /\ device.destroyedBuffers # <<>>

\* C31 as stated: right after uploadBuffers every group, a group with
\* count = 0 included, has ia.instanceCount = count.
C31_Original ==
    lastOp.op = "uploadBuffers" =>
        \A g \in Groups : instances[g].ia.instanceCount = instances[g].count

\* What uploadBuffers does to the instance counts of the input assemblers.
InstanceCountStep ==
    lastOp'.op = "uploadBuffers" =>
        /\ Len(instances') = Len(instances)
        /\ \A g \in 1..Len(instances) :
              /\ instances'[g].count = instances[g].count
              /\ instances'[g].ia.instanceCount =
                     IF instances[g].count > 0 THEN instances[g].count
                     ELSE instances[g].ia.instanceCount

\* C31: right after uploadBuffers every group with count > 0 has
\* ia.instanceCount = count; a group with count = 0 is skipped and keeps the
\* ia.instanceCount it had before the call, which is the count of its latest
\* upload (0 if it was never uploaded).
C31_InstanceCount ==
    /\ [](lastOp.op = "uploadBuffers" =>
             \A g \in Groups :
                 instances[g].count > 0 => instances[g].ia.instanceCount = instances[g].count)
    /\ [][InstanceCountStep]_vars

\* An upload that skips a group emptied by clear after an earlier upload,
\* and sets the instance count of another.
C31_Witness ==
    /\ lastOp.op = "uploadBuffers"
    /\ \E g \in Groups : instances[g].count = 0 /\ instances[g].ia.instanceCount > 0
    /\ \E h \in Groups : instances[h].count > 0
                          /\ instances[h].ia.instanceCount = instances[h].count

\* The aggregator of the first run, as the second run's is held.
Aggregator ==
    [instances |-> instances, hasPendingModels |-> hasPendingModels, device |-> device]

\* C32: two runs of one sequence of calls whose merges are passed overrides
\* chosen apart reach the same aggregator state (groups, flag, objects
\* created and released), and every group's hShader is the shader handle of
\* the submission recorded last in it, for the pass index given: never the
\* override.
C32_OverrideIgnored ==
    /\ twin = Aggregator
    /\ \A g \in Groups :
          /\ instances[g].hShader = lastWriter[g].shaders[lastWriter[g].passIdx + 1]
          /\ instances[g].hShader \notin ShaderImplants \ {NULL_SHADER}

\* After a clear, a merge given an override in one run and none in the
\* other is recorded in the group the frame before created.
C32_Witness ==
    /\ lastOp.op = "merge" /\ lastOp.outcome = "append"
    /\ implants.own # NULL_SHADER /\ implants.twin = NULL_SHADER
    /\ frames = 1
    /\ twin.instances = instances /\ Len(twin.instances) = 1
    /\ instances[1].hShader = 3

\* What one update does, once a burst has been copied.
BurstStep ==
    burstRun'.call = "update" /\ burstRun.copies >= 1 =>
        /\ psys'.emitCalls - psys.emitCalls \in {0, 1}
        /\ psys'.emitCalls - psys.emitCalls = burstRun'.emitted - burstRun.emitted
        /\ psys'.emitCalls # psys.emitCalls =>
               /\ burstRun.elapsed > burstRun.burst.time
               /\ ~subBurst.finish
        /\ subBurst.finish => subBurst'.finish /\ psys'.emitCalls = psys.emitCalls

\* C33: after copy of a burst with repeatCount n >= 1, updates with dt > 0
\* call emit at most once each, never before the time passed to the updates
\* since the copy exceeds the burst's time, and n times in all: finish is
\* true exactly when the n-th call has been made, no call is made while
\* finish is true, and finish becomes true unless copy is called again
\* first.
C33_BurstEmits ==
    /\ [](burstRun.copies >= 1 =>
             /\ burstRun.emitted <= burstRun.burst.repeatCount
             /\ subBurst.remainingCount = burstRun.burst.repeatCount - burstRun.emitted
             /\ subBurst.finish <=> burstRun.emitted = burstRun.burst.repeatCount)
    /\ [][BurstStep]_vars
    /\ \A k \in 1..MaxCopies :
          (burstRun.copies = k) ~> (subBurst.finish \/ burstRun.copies > k)

\* A second copy, made before the first burst had finished, finished: a
\* burst of two at time 1 with interval 1.
C33_Witness ==
    /\ burstRun.copies = 2
    /\ burstRun.burst = [time |-> 1, repeatCount |-> 2, repeatInterval |-> 1]
    /\ subBurst.finish
    /\ burstRun.emitted = 2
    /\ psys.emitCalls = 3

\* C34: with limit >= 0, dampenBeyondLimit returns vel when |vel| <= limit;
\* when |vel| > limit it returns sign(vel) times the larger of limit and
\* |vel| - |vel| * dampen, a magnitude that is at least limit and, if
\* dampen >= 0, at most |vel| (values in parts of DampenScale).
C34_DampenBeyondLimit ==
    dampenCall.returned =>
        LET vel == dampenCall.vel * DampenScale
            limit == dampenCall.limit * DampenScale
            given == Abs(vel) - Abs(dampenCall.vel) * dampenCall.dampen
            result == dampenCall.result
        IN  /\ Abs(vel) <= limit => result = vel
            /\ Abs(vel) > limit =>
                  /\ result = Sign(vel) * AtLeast(limit, given)
                  /\ Abs(result) >= limit
                  /\ dampenCall.dampen >= 0 => Abs(result) <= Abs(vel)

\* -4 beyond the limit 1, dampened by a half: -2.
C34_Witness ==
    /\ dampenCall.returned
    /\ dampenCall.vel = -4 /\ dampenCall.limit = 1 /\ dampenCall.dampen = 2
    /\ dampenCall.result = -2 * DampenScale

====
